---------------------------- MODULE Spec2Model ----------------------------
(***************************************************************************)
(* A model of lmql's model descriptor resolver (lmql/api/llm.py) and of    *)
(* the transformers generation backend                                     *)
(* (lmql/models/lmtp/backends/transformers_model.py).                      *)
(*                                                                         *)
(* Python strings are sequences of one-character strings, so that prefix   *)
(* tests, slicing, replace, dirname/join and f-string rendering are        *)
(* computed the way the code computes them.                                *)
(***************************************************************************)
EXTENDS Integers, Sequences, FiniteSets, TLC

(***************************************************************************)
(* Bounds of the model.                                                    *)
(***************************************************************************)
\* longest keyword mapping a caller passes to from_descriptor (Spec)
MaxOpts == 2
\* longest keyword mapping in the handle specification (SpecHandle)
MaxHandleOpts == 1
\* largest max_new_tokens of a generate call
MaxNewTokens == 3
\* largest batch of a generate call
MaxBatch == 2

(***************************************************************************)
(* String literals of the source.                                          *)
(***************************************************************************)
S_dynamic == <<"<","d","y","n","a","m","i","c",">">>
S_openai == <<"o","p","e","n","a","i","/">>
S_random == <<"r","a","n","d","o","m">>
S_llamacpp == <<"l","l","a","m","a",".","c","p","p",":">>
S_local == <<"l","o","c","a","l",":">>
S_localhost == <<"l","o","c","a","l","h","o","s","t",":","8","0","8","0">>
S_gpt2 == <<"g","p","t","2">>
S_huggyllama == <<"h","u","g","g","y","l","l","a","m","a","/",
                  "l","l","a","m","a","-","7","b">>
S_tokenizer_model == <<"t","o","k","e","n","i","z","e","r",".",
                       "m","o","d","e","l">>
S_gpt35 == <<"g","p","t","-","3",".","5","-","t","u","r","b","o","-",
             "i","n","s","t","r","u","c","t">>
S_davinci == <<"t","e","x","t","-","d","a","v","i","n","c","i","-",
               "0","0","3">>
S_sep == <<",", " ">>
S_eq == <<"=">>
S_True == <<"T","r","u","e">>
S_False == <<"F","a","l","s","e">>
S_None == <<"N","o","n","e">>

K_endpoint == <<"e","n","d","p","o","i","n","t">>
K_inprocess == <<"i","n","p","r","o","c","e","s","s">>
K_tokenizer == <<"t","o","k","e","n","i","z","e","r">>
K_vocab == <<"v","o","c","a","b">>
K_async_transport == <<"a","s","y","n","c","_","t","r","a","n","s","p","o","r","t">>

(***************************************************************************)
(* Python values: str, bool, None (option values); str, None, int, LLM     *)
(* (the model_identifier argument).  One record shape per family.          *)
(***************************************************************************)
VStr(s) == [t |-> "str", s |-> s, b |-> FALSE, n |-> 0]
VBool(b) == [t |-> "bool", s |-> <<>>, b |-> b, n |-> 0]
VInt(n) == [t |-> "int", s |-> <<>>, b |-> FALSE, n |-> n]
VNone == [t |-> "none", s |-> <<>>, b |-> FALSE, n |-> 0]

\* str(n) of a natural number
Digits == <<"0","1","2","3","4","5","6","7","8","9">>
RECURSIVE IntStr(_)
IntStr(n) ==
    IF n < 10 THEN <<Digits[n + 1]>>
    ELSE IntStr(n \div 10) \o <<Digits[(n % 10) + 1]>>

\* str(v), as an f-string renders a value
PyStr(v) ==
    CASE v.t = "str" -> v.s
      [] v.t = "bool" -> IF v.b THEN S_True ELSE S_False
      [] v.t = "int" -> IntStr(v.n)
      [] OTHER -> S_None

\* bool(v)
Truthy(v) ==
    CASE v.t = "str" -> v.s # <<>>
      [] v.t = "bool" -> v.b
      [] v.t = "int" -> v.n # 0
      [] OTHER -> FALSE

AStr(s) == [t |-> "str", s |-> s, id |-> 0]
ANone == [t |-> "none", s |-> <<>>, id |-> 0]
AInt == [t |-> "int", s |-> <<>>, id |-> 0]
ALLM(i) == [t |-> "llm", s |-> <<>>, id |-> i]

(***************************************************************************)
(* str operations.                                                         *)
(***************************************************************************)
\* s.startswith(p)
StartsWith(s, p) == Len(s) >= Len(p) /\ SubSeq(s, 1, Len(p)) = p

\* s[n:]
DropPrefix(s, n) == SubSeq(s, n + 1, Len(s))

\* s.replace(p, "")
RECURSIVE RemoveAll(_, _)
RemoveAll(s, p) ==
    IF s = <<>> THEN <<>>
    ELSE IF StartsWith(s, p) THEN RemoveAll(DropPrefix(s, Len(p)), p)
    ELSE <<Head(s)>> \o RemoveAll(Tail(s), p)

\* s.rfind("/") + 1
LastSlash(s) ==
    LET at == {i \in 1..Len(s) : s[i] = "/"}
    IN IF at = {} THEN 0 ELSE CHOOSE i \in at : \A j \in at : j <= i

\* s.rstrip("/")
RECURSIVE RStripSlash(_)
RStripSlash(s) ==
    IF s # <<>> /\ s[Len(s)] = "/" THEN RStripSlash(SubSeq(s, 1, Len(s) - 1))
    ELSE s

\* os.path.dirname(p)
Dirname(p) ==
    LET head == SubSeq(p, 1, LastSlash(p))
    IN IF head # <<>> /\ (\E j \in 1..Len(head) : head[j] # "/")
       THEN RStripSlash(head)
       ELSE head

\* os.path.join(a, b)
PathJoin(a, b) ==
    IF StartsWith(b, <<"/">>) THEN b
    ELSE IF a = <<>> \/ a[Len(a)] = "/" THEN a \o b
    ELSE a \o <<"/">> \o b

(***************************************************************************)
(* dict operations on **kwargs: a sequence of [k, v] in insertion order.   *)
(***************************************************************************)
\* k in d
Has(d, k) == \E i \in 1..Len(d) : d[i].k = k

\* d.get(k, dflt)
Get(d, k, dflt) ==
    IF Has(d, k) THEN d[CHOOSE i \in 1..Len(d) : d[i].k = k].v ELSE dflt

\* d[k] = v : an existing key keeps its position, a new key goes last
Put(d, k, v) ==
    IF Has(d, k)
    THEN [i \in 1..Len(d) |-> IF d[i].k = k THEN [k |-> k, v |-> v] ELSE d[i]]
    ELSE Append(d, [k |-> k, v |-> v])

\* d after d.pop(k, dflt)
RECURSIVE Remove(_, _)
Remove(d, k) ==
    IF d = <<>> THEN <<>>
    ELSE IF Head(d).k = k THEN Remove(Tail(d), k)
    ELSE <<Head(d)>> \o Remove(Tail(d), k)

\* ", ".join(parts)
RECURSIVE Join(_)
Join(parts) ==
    IF parts = <<>> THEN <<>>
    ELSE IF Len(parts) = 1 THEN parts[1]
    ELSE parts[1] \o S_sep \o Join(Tail(parts))


(***************************************************************************)
(* lmql.models.aliases.model_name_aliases: short names for full            *)
(* identifiers, as pairs <<alias, target>>.                                *)
(***************************************************************************)
S_alias_gpt4 == <<"g","p","t","-","4">>
S_alias_g2 == <<"g","2">>
model_name_aliases ==
    { <<S_alias_gpt4, S_openai \o S_alias_gpt4>>,
      <<S_alias_g2, S_local \o S_gpt2>> }

AliasKeys == {a[1] : a \in model_name_aliases}

(***************************************************************************)
(* Adapters, as the three external constructors are called.  A parameter   *)
(* a constructor is not given is NotPassed.                                *)
(***************************************************************************)
NotPassed == [t |-> "absent", s |-> <<>>, b |-> FALSE, n |-> 0]

NoAdapter ==
    [kind |-> "none", name |-> <<>>, endpoint |-> NotPassed, kwargs |-> <<>>,
     use_existing_configuration |-> FALSE]

\* openai_model(name, endpoint=endpoint, **kwargs)
openai_model(name, endpoint, kwargs) ==
    [kind |-> "openai", name |-> name, endpoint |-> endpoint, kwargs |-> kwargs,
     use_existing_configuration |-> FALSE]

\* inprocess(name, use_existing_configuration=True, **kwargs)()
inprocess(name, kwargs) ==
    [kind |-> "inprocess", name |-> name, endpoint |-> NotPassed,
     kwargs |-> kwargs, use_existing_configuration |-> TRUE]

\* lmtp_model(name, endpoint=endpoint, **kwargs)()
lmtp_model(name, endpoint, kwargs) ==
    [kind |-> "lmtp", name |-> name, endpoint |-> endpoint, kwargs |-> kwargs,
     use_existing_configuration |-> FALSE]

\* LLM(model_identifier, adapter=..., configuration_string=...)
LLM(model_identifier, adapter, configuration_string) ==
    [model_identifier |-> model_identifier, adapter |-> adapter,
     configuration_string |-> configuration_string]

NoObj == LLM(<<>>, NoAdapter, <<>>)

(***************************************************************************)
(* LLM.from_descriptor, step by step.                                      *)
(***************************************************************************)
\* model_identifier == "<dynamic>" or model_identifier is None
NeedsDefault(x) == x.t = "none" \/ (x.t = "str" /\ x.s = S_dynamic)

IsDescriptor_NeverShortcuts(x) == FALSE

\* type(model_identifier) is LLM
IsDescriptor(x) == x.t = "llm"

\* model_name_aliases[model_identifier], if model_identifier is a key
ApplyAlias(s) ==
    IF s \in AliasKeys
    THEN (CHOOSE a \in model_name_aliases : a[1] = s)[2]
    ELSE s

\* original_name = model_identifier, taken after the alias lookup
RememberOriginal(given, aliased) == aliased

ConfigurationRepresentation_AfterPop(kwargs) ==
    Join([i \in 1..Len(Remove(kwargs, K_endpoint)) |->
            Remove(kwargs, K_endpoint)[i].k \o S_eq
                \o PyStr(Remove(kwargs, K_endpoint)[i].v)])

\* ", ".join([f"{k}={v}" for k, v in kwargs.items()])
ConfigurationRepresentation(kwargs) ==
    Join([i \in 1..Len(kwargs) |-> kwargs[i].k \o S_eq \o PyStr(kwargs[i].v)])

\* model_identifier.startswith("openai/")
IsOpenAI(s) == StartsWith(s, S_openai)

OpenAIName_OffByOne(s) == DropPrefix(s, 6)

\* model_identifier[7:]
OpenAIName(s) == DropPrefix(s, 7)

\* if endpoint is None: endpoint = "localhost:8080"
DefaultEndpoint(endpoint) ==
    IF endpoint.t = "none" THEN VStr(S_localhost) ELSE endpoint

OpenAIBranch_DefaultsEndpoint(s, endpoint, kwargs) ==
    openai_model(OpenAIName(s), DefaultEndpoint(endpoint), kwargs)

\* the hard-coded openai/ namespace
OpenAIBranch(s, endpoint, kwargs) ==
    openai_model(OpenAIName(s), endpoint, kwargs)

\* special case for the 'random' model
RandomCase(s, kwargs) ==
    IF s = S_random
    THEN LET tok == IF ~Has(kwargs, K_vocab) THEN VStr(S_gpt2)
                    ELSE Get(kwargs, K_vocab, VNone)
         IN Put(Put(Put(kwargs, K_tokenizer, tok),
                    K_inprocess, VBool(TRUE)),
                K_async_transport, VBool(TRUE))
    ELSE kwargs

\* os.path.join(os.path.dirname(id.replace("llama.cpp:", "")), "tokenizer.model")
TokenizerPath(s) ==
    PathJoin(Dirname(RemoveAll(s, S_llamacpp)), S_tokenizer_model)

LlamaCppCase_IgnoresFile(s, kwargs, fsys) ==
    IF StartsWith(s, S_llamacpp) /\ ~Has(kwargs, K_tokenizer)
    THEN [kwargs |-> Put(kwargs, K_tokenizer, VStr(S_huggyllama)),
          warnings |-> <<"UserWarning">>]
    ELSE [kwargs |-> kwargs, warnings |-> <<>>]

\* special case for 'llama.cpp': the kwargs after it and the warnings it emits
LlamaCppCase(s, kwargs, fsys) ==
    IF StartsWith(s, S_llamacpp)
    THEN IF Has(kwargs, K_tokenizer)
         THEN [kwargs |-> Put(kwargs, K_tokenizer, Get(kwargs, K_tokenizer, VNone)),
               warnings |-> <<>>]
         ELSE IF TokenizerPath(s) \in fsys
              THEN [kwargs |-> Put(kwargs, K_tokenizer, VStr(TokenizerPath(s))),
                    warnings |-> <<>>]
              ELSE [kwargs |-> Put(kwargs, K_tokenizer,
                                   Get(kwargs, K_tokenizer, VStr(S_huggyllama))),
                    warnings |-> <<"UserWarning">>]
    ELSE [kwargs |-> kwargs, warnings |-> <<>>]

LocalCase_KeepsCallerInprocess(s, kwargs) ==
    IF StartsWith(s, S_local)
    THEN [name |-> DropPrefix(s, 6),
          kwargs |-> IF Has(kwargs, K_inprocess) THEN kwargs
                     ELSE Put(kwargs, K_inprocess, VBool(TRUE))]
    ELSE [name |-> s, kwargs |-> kwargs]

\* determine model name and if we run in-process
LocalCase(s, kwargs) ==
    IF StartsWith(s, S_local)
    THEN [name |-> DropPrefix(s, 6), kwargs |-> Put(kwargs, K_inprocess, VBool(TRUE))]
    ELSE [name |-> s, kwargs |-> kwargs]

\* if kwargs.get("inprocess", False): inprocess(...) else: lmtp_model(...)
SelectModel(name, endpoint, kwargs) ==
    IF Truthy(Get(kwargs, K_inprocess, VBool(FALSE)))
    THEN inprocess(name, kwargs)
    ELSE lmtp_model(name, endpoint, kwargs)

\* what a call of from_descriptor comes to
Raised(exc) ==
    [kind |-> "raised", id |-> 0, obj |-> NoObj, exc |-> exc, warnings |-> <<>>]
Existing(id) ==
    [kind |-> "existing", id |-> id, obj |-> NoObj, exc |-> "", warnings |-> <<>>]
Constructed(obj, warnings) ==
    [kind |-> "new", id |-> 0, obj |-> obj, exc |-> "", warnings |-> warnings]

\* the branch of from_descriptor below the alias lookup
Dispatch(given, kwargs, dm, fsys) ==
    LET aliased == ApplyAlias(given)
        original_name == RememberOriginal(given, aliased)
        conf == ConfigurationRepresentation(kwargs)
        m == IF aliased = S_dynamic THEN dm ELSE AStr(aliased)
        endpoint == Get(kwargs, K_endpoint, VNone)
        kw == Remove(kwargs, K_endpoint)
    IN IF m.t # "str" THEN Raised("AttributeError")
       ELSE IF IsOpenAI(m.s)
       THEN Constructed(LLM(original_name, OpenAIBranch(m.s, endpoint, kw), conf),
                        <<>>)
       ELSE LET rnd == RandomCase(m.s, kw)
                ll == LlamaCppCase(m.s, rnd, fsys)
                ep == DefaultEndpoint(endpoint)
                lc == LocalCase(m.s, ll.kwargs)
            IN Constructed(LLM(original_name,
                               SelectModel(lc.name, ep, lc.kwargs), conf),
                           ll.warnings)

\* LLM.from_descriptor(model_identifier, **kwargs), with the default model dm
\* and the files fsys of the moment
from_descriptor(arg, kwargs, dm, fsys) ==
    LET m == IF NeedsDefault(arg) THEN dm ELSE arg
    IN IF m.t \notin {"str", "llm"} THEN Raised("AssertionError")
       ELSE IF IsDescriptor(m) THEN Existing(m.id)
       ELSE IF m.t # "str" THEN Raised("AttributeError")
       ELSE Dispatch(m.s, kwargs, dm, fsys)


(***************************************************************************)
(* The process: the default model cell, the LLM objects alive (those the   *)
(* default cell or the caller's variable refers to, by object identity),   *)
(* the files that exist, and the call of from_descriptor that has just     *)
(* returned to the caller.                                                 *)
(***************************************************************************)
VARIABLES
    default_model,   \* the module global default_model: a str or an LLM
    heap,            \* object id -> LLM object, for the objects alive
    held,            \* the LLM the caller holds (0: none)
    fs,              \* the paths for which os.path.exists is true
    pc,              \* "idle", or "returned" right after a call
    call,            \* the arguments of that call
    ret,             \* how that call ended
    warned           \* the warnings that call emitted

rvars == <<default_model, heap, held, fs, pc, call, ret, warned>>

\* identifiers callers pass
I_openai_gpt35 == S_openai \o S_gpt35
I_openai_random == S_openai \o S_random
I_OpenAI_upper == <<"O","p","e","n","A","I","/","g">>
I_local_f == S_local \o <<"f">>
I_llama_m_w == S_llamacpp \o <<"m","/","w">>
I_llama_w == S_llamacpp \o <<"w">>
I_bare == <<"f">>

Identifiers ==
    { I_openai_gpt35, I_openai_random, I_OpenAI_upper, S_random, I_local_f,
      I_llama_m_w, I_llama_w, I_bare, S_alias_gpt4, S_alias_g2, S_dynamic }

HandleIdentifiers == { I_local_f, S_dynamic }

\* the paths os.path.exists is asked about
Paths == { <<"m","/">> \o S_tokenizer_model, S_tokenizer_model }

\* values of LMQL_DEFAULT_MODEL / LMQL_BROWSER at import, and of set_default_model
InitialDefaults == { AStr(I_openai_gpt35), AStr(S_openai \o S_davinci) }
DefaultStrings == { AStr(I_openai_gpt35), AStr(I_local_f), AStr(S_dynamic) }

\* the options callers pass
S_host == <<"h">>
S_tok == <<"t">>
S_voc == <<"v">>
OptionChoices ==
    { [k |-> K_endpoint, v |-> VNone], [k |-> K_endpoint, v |-> VStr(S_host)],
      [k |-> K_inprocess, v |-> VBool(TRUE)], [k |-> K_inprocess, v |-> VBool(FALSE)],
      [k |-> K_tokenizer, v |-> VStr(S_tok)], [k |-> K_vocab, v |-> VStr(S_voc)] }
HandleOptionChoices ==
    { [k |-> K_endpoint, v |-> VStr(S_host)], [k |-> K_inprocess, v |-> VBool(FALSE)] }

\* the keyword mappings of exactly n distinct keys, in every insertion order
RECURSIVE KwargsOfLen(_, _)
KwargsOfLen(choices, n) ==
    IF n = 0 THEN { <<>> }
    ELSE { Append(x[1], x[2]) :
             x \in { y \in KwargsOfLen(choices, n - 1) \X choices :
                       ~Has(y[1], y[2].k) } }

Kwargs(choices, n) == UNION { KwargsOfLen(choices, i) : i \in 0..n }

NoCall == [arg |-> ANone, kwargs |-> <<>>]
NoRet == [kind |-> "none", id |-> 0, exc |-> "", constructed |-> 0]

RInit ==
    /\ default_model \in InitialDefaults
    /\ heap = <<>>
    /\ held = 0
    /\ fs \in SUBSET Paths
    /\ pc = "idle"
    /\ call = NoCall
    /\ ret = NoRet
    /\ warned = <<>>

\* the objects still referred to
Alive(h, dm, hd) ==
    LET keep == ({hd} \cup (IF dm.t = "llm" THEN {dm.id} ELSE {}))
                   \cap DOMAIN h
    IN [i \in keep |-> h[i]]

\* an id no object alive has
FreshId(h) ==
    CHOOSE i \in 1..3 : i \notin DOMAIN h /\ \A j \in 1..(i - 1) : j \in DOMAIN h

\* LLM.from_descriptor(arg, **kwargs), up to its return
FromDescriptor(arg, kwargs) ==
    /\ pc = "idle"
    /\ arg.t = "llm" => arg.id \in DOMAIN heap
    /\ LET r == from_descriptor(arg, kwargs, default_model, fs)
           id == CASE r.kind = "new" -> FreshId(heap)
                   [] r.kind = "existing" -> r.id
                   [] OTHER -> 0
       IN /\ heap' = IF r.kind = "new"
                     THEN [i \in DOMAIN heap \cup {id} |->
                             IF i = id THEN r.obj ELSE heap[i]]
                     ELSE heap
          /\ ret' = [kind |-> r.kind, id |-> id, exc |-> r.exc,
                     constructed |-> IF r.kind = "new" THEN 1 ELSE 0]
          /\ call' = [arg |-> arg, kwargs |-> kwargs]
          /\ warned' = r.warnings
    /\ pc' = "returned"
    /\ UNCHANGED <<default_model, held, fs>>

\* the caller binds the returned handle to its variable
Keep ==
    /\ pc = "returned"
    /\ ret.kind \in {"new", "existing"}
    /\ held' = ret.id
    /\ heap' = Alive(heap, default_model, ret.id)
    /\ pc' = "idle"
    /\ call' = NoCall
    /\ ret' = NoRet
    /\ warned' = <<>>
    /\ UNCHANGED <<default_model, fs>>

\* the caller drops what the call returned (or the call raised)
Discard ==
    /\ pc = "returned"
    /\ heap' = Alive(heap, default_model, held)
    /\ pc' = "idle"
    /\ call' = NoCall
    /\ ret' = NoRet
    /\ warned' = <<>>
    /\ UNCHANGED <<default_model, held, fs>>

\* set_default_model(model)
SetDefaultModel(m) ==
    /\ pc = "idle"
    /\ m.t = "llm" => m.id \in DOMAIN heap
    /\ default_model' = m
    /\ heap' = Alive(heap, m, held)
    /\ UNCHANGED <<held, fs, pc, call, ret, warned>>

(***************************************************************************)
(* The transformers backend: one TransformersLLM instance, the decoding    *)
(* loop of self.model.generate with the two callbacks the backend hands    *)
(* to it, and score.  Scores are integers; token ids are 1..VocabSize.     *)
(***************************************************************************)
\* scores.shape[-1] of the loaded model
VocabSize == 3
Vocab == 1..VocabSize
\* self.model.config.eos_token_id
eos_token_id == VocabSize

S_autogptq == <<"a","u","t","o","-","g","p","t","q">>

NoInstance ==
    [constructed |-> FALSE, model_identifier |-> <<>>, model_args |-> <<>>,
     max_batch_size |-> VNone, silent |-> VNone, loader |-> "none",
     model |-> "unloaded", loads |-> 0, printed |-> 0]

TransformersLLM_init_Lazy(model_identifier, kwargs, weights) ==
    [constructed |-> TRUE, model_identifier |-> model_identifier,
     model_args |-> Remove(Remove(Remove(kwargs, "batch_size"), "silent"), "loader"),
     max_batch_size |-> Get(kwargs, "batch_size", VInt(32)),
     silent |-> Get(kwargs, "silent", VBool(FALSE)),
     loader |-> "none", model |-> "unloaded", loads |-> 0, printed |-> 0]

\* TransformersLLM.__init__(model_identifier, **kwargs); weights is what the
\* loader reads for model_identifier.  self.model_args is the kwargs dict
\* itself, so the three pops all show in it.
TransformersLLM_init(model_identifier, kwargs, weights) ==
    [constructed |-> TRUE, model_identifier |-> model_identifier,
     model_args |-> Remove(Remove(Remove(kwargs, "batch_size"), "silent"), "loader"),
     max_batch_size |-> Get(kwargs, "batch_size", VInt(32)),
     silent |-> Get(kwargs, "silent", VBool(FALSE)),
     loader |-> IF Get(kwargs, "loader", VNone) = VStr(S_autogptq)
                THEN "AutoGPTQForCausalLM.from_quantized"
                ELSE "AutoModelForCausalLM.from_pretrained",
     model |-> weights, loads |-> 1,
     printed |-> IF Truthy(Get(kwargs, "silent", VBool(FALSE))) THEN 0 ELSE 2]

\* the logits self.model computes after the sequence seq
Forward(weights, seq) ==
    LET last == seq[Len(seq)]
    IN [v \in Vocab |->
          CASE weights = "succ" ->
                 VocabSize - 1 - ((v - last - 1 + 2 * VocabSize) % VocabSize)
            [] weights = "repeat" ->
                 VocabSize - 1 - ((v - last + 2 * VocabSize) % VocabSize)
            [] OTHER -> 0]

\* the greatest entry of a row
RowMax(row) == CHOOSE x \in {row[v] : v \in DOMAIN row} :
                   \A v \in DOMAIN row : row[v] <= x

\* torch.log_softmax(row, dim=-1): the row shifted by a constant; the
\* constant is the row's maximum here (the log of the sum of exponentials
\* in torch)
log_softmax(row) == [v \in DOMAIN row |-> row[v] - RowMax(row)]

\* torch.argmax(row): the first of the greatest entries
ArgMax(row) == CHOOSE v \in DOMAIN row :
                   /\ row[v] = RowMax(row)
                   /\ \A u \in DOMAIN row : row[u] = RowMax(row) => v <= u

\* LMTPModel.make_bias_tensor(logit_biases, vocab_size): one dense row per
\* batch element, 0 except at the ids of that element's bias mapping
make_bias_tensor(logit_biases, vocab_size) ==
    [b \in 1..Len(logit_biases) |->
       [v \in 1..vocab_size |->
          IF \E e \in logit_biases[b] : e[1] = v
          THEN (CHOOSE e \in logit_biases[b] : e[1] = v)[2]
          ELSE 0]]

\* the closure cell bias_tensors: None, or the tensor
NoTensor == [set |-> FALSE, t |-> <<>>]
Tensor(t) == [set |-> TRUE, t |-> t]

logits_processors_KeepsCell(cell, logit_biases) ==
    [bias_tensors |-> cell,
     processors |-> IF Len(logit_biases) = 0 THEN 0 ELSE 1]

\* TransformersLLM.logits_processors(logit_biases): the fresh cell and the
\* length of the list returned; cell is what a processor built before holds
logits_processors(cell, logit_biases) ==
    [bias_tensors |-> NoTensor,
     processors |-> IF Len(logit_biases) = 0 THEN 0 ELSE 1]

\* BatchLogitsProcessor.__call__(input_ids, scores): the cell after the
\* call, whether the call built the tensor, and the scores returned
BatchLogitsProcessor(cell, logit_biases, scores) ==
    LET built == ~cell.set
        bt == IF built THEN make_bias_tensor(logit_biases, VocabSize) ELSE cell.t
    IN [bias_tensors |-> Tensor(bt), built |-> built, added |-> bt,
        scores |-> [b \in DOMAIN scores |->
                      log_softmax([v \in Vocab |-> scores[b][v] + bt[b][v]])]]

StoppingCriterion_ReturnsStreamer(streamer_returns) ==
    [forwarded |-> 1, stop |-> streamer_returns]

\* TokenStreamerDisguisedAsStoppingCriterion.__call__: it calls the
\* streamer once and returns False, whatever the streamer returned
StoppingCriterion(streamer_returns) ==
    [forwarded |-> 1, stop |-> FALSE]

\* the token the loop takes from a processed row at a step: the arg-max, or
\* with do_sample a draw, which a fixed seed makes a function of the step
NextToken(do_sample, seed, step, row) ==
    IF do_sample THEN ((seed + step) % VocabSize) + 1 ELSE ArgMax(row)

\* one step of the decoding loop on the batch: scores, tokens, sequences
LoopStep(weights, in, cell, processors, seqs, unfinished, step) ==
    LET B == Len(seqs)
        raw == [b \in 1..B |-> Forward(weights, seqs[b])]
        proc == IF processors = 1
                THEN BatchLogitsProcessor(cell, in.bias_tensor, raw)
                ELSE [bias_tensors |-> cell, built |-> FALSE, added |-> <<>>,
                      scores |-> raw]
        tok == [b \in 1..B |->
                  IF unfinished[b]
                  THEN NextToken(in.temperature > 0, in.seed, step, proc.scores[b])
                  ELSE eos_token_id]
    IN [proc |-> proc,
        seqs |-> [b \in 1..B |-> Append(seqs[b], tok[b])],
        unfinished |-> [b \in 1..B |-> unfinished[b] /\ tok[b] # eos_token_id]]

\* TransformersLLM.score(input_ids, attention_mask): per sequence 0.0, then
\* the log-probability of each token given the tokens before it
score(weights, input_ids) ==
    [b \in 1..Len(input_ids) |->
       <<0>> \o [j \in 1..(Len(input_ids[b]) - 1) |->
                   log_softmax(Forward(weights, SubSeq(input_ids[b], 1, j)))
                       [input_ids[b][j + 1]]]]

VARIABLES
    llm,             \* the TransformersLLM instance
    used,            \* a score or generate call has been made on it
    gen,             \* the generate call in progress (stale: an earlier
                     \* call left a tensor that is not this call's)
    bias_tensors,    \* the cell the logits processor of the call closes over
    streamed,        \* what the streamer has been called with, in order
    scored           \* what a score call returns, until the caller has it

bvars == <<llm, used, gen, bias_tensors, streamed, scored>>

NoInput ==
    [input_ids |-> <<>>, temperature |-> 0, max_new_tokens |-> 0,
     bias_tensor |-> <<>>, seed |-> 0, streamer_returns |-> FALSE]

NoGen ==
    [pc |-> "idle", in |-> NoInput, processors |-> 0, step |-> 0,
     seqs |-> <<>>, unfinished |-> <<>>, scores |-> <<>>,
     builds |-> 0, added |-> <<>>, stale |-> FALSE]

BInit ==
    /\ llm = NoInstance
    /\ used = FALSE
    /\ gen = NoGen
    /\ bias_tensors = NoTensor
    /\ streamed = <<>>
    /\ scored = <<>>

\* backend = TransformersLLM(model_identifier, **kwargs)
Construct(model_identifier, kwargs, weights) ==
    /\ ~llm.constructed
    /\ llm' = TransformersLLM_init(model_identifier, kwargs, weights)
    /\ UNCHANGED <<used, gen, bias_tensors, streamed, scored>>

\* backend.score(input_ids, attention_mask)
Score(input_ids) ==
    /\ llm.constructed
    /\ gen.pc = "idle" /\ scored = <<>>
    /\ used' = TRUE
    /\ scored' = score(llm.model, input_ids)
    /\ UNCHANGED <<llm, gen, bias_tensors, streamed>>

\* the caller takes what score returned
ScoreReturn ==
    /\ scored # <<>>
    /\ scored' = <<>>
    /\ UNCHANGED <<llm, used, gen, bias_tensors, streamed>>

\* backend.generate(...), up to the call of self.model.generate
GenerateBegin(in) ==
    /\ llm.constructed
    /\ gen.pc = "idle" /\ scored = <<>>
    /\ used' = TRUE
    /\ LET lp == logits_processors(bias_tensors, in.bias_tensor)
       IN /\ bias_tensors' = lp.bias_tensors
          /\ gen' = [pc |-> "decoding", in |-> in, processors |-> lp.processors,
                     step |-> 0, seqs |-> in.input_ids,
                     unfinished |-> [b \in 1..Len(in.input_ids) |-> TRUE],
                     scores |-> <<>>, builds |-> 0, added |-> <<>>,
                     stale |-> /\ bias_tensors.set
                               /\ bias_tensors.t
                                    # make_bias_tensor(in.bias_tensor, VocabSize)]
    /\ streamed' = <<>>
    /\ UNCHANGED <<llm, scored>>

\* one step of self.model.generate: the processor, the next tokens, then
\* the stopping criteria, which this backend uses to reach the streamer
DecodeStep ==
    /\ gen.pc = "decoding"
    /\ LET st == LoopStep(llm.model, gen.in, bias_tensors, gen.processors,
                          gen.seqs, gen.unfinished, gen.step)
           scores == Append(gen.scores, st.proc.scores)
           crit == StoppingCriterion(gen.in.streamer_returns)
           finished == \/ \A b \in 1..Len(st.seqs) : ~st.unfinished[b]
                       \/ gen.step + 1 >= gen.in.max_new_tokens
                       \/ crit.stop
       IN /\ bias_tensors' = st.proc.bias_tensors
          /\ streamed' = streamed \o
                           [i \in 1..crit.forwarded |->
                              [input_ids |-> st.seqs, scores |-> scores]]
          /\ gen' = [gen EXCEPT
                       !.pc = IF finished THEN "done" ELSE "decoding",
                       !.step = gen.step + 1,
                       !.seqs = st.seqs,
                       !.unfinished = st.unfinished,
                       !.scores = scores,
                       !.builds = gen.builds + (IF st.proc.built THEN 1 ELSE 0),
                       !.added = IF gen.processors = 1
                                 THEN Append(gen.added, st.proc.added)
                                 ELSE gen.added]
    /\ UNCHANGED <<llm, used, scored>>

\* return LMTPModelResult(sequences=..., scores=...): the locals are gone
GenerateReturn ==
    /\ gen.pc = "done"
    /\ gen' = NoGen
    /\ streamed' = <<>>
    /\ UNCHANGED <<llm, used, bias_tensors, scored>>

\* the inputs of the backend's calls
BackendKwargs ==
    { <<>>,
      << [k |-> "loader", v |-> VStr(S_autogptq)], [k |-> "silent", v |-> VBool(TRUE)],
         [k |-> "batch_size", v |-> VInt(8)], [k |-> "device_map", v |-> VStr(<<"a">>)] >> }
WeightFiles == { "succ", "repeat" }
Prompts == { <<1>>, <<2>> }
ScoreInputs == { <<1, 2>>, <<2, 1>>, <<3, 3>> }
BiasSets == { {}, { <<eos_token_id, VocabSize>> } }

\* a batch of n prompts
Batches(n) == [1..n -> Prompts]

\* the bias sets of a batch of n: one per element, or none at all
BiasLists(n) == [1..n -> BiasSets] \cup { <<>> }

GenerateInputs ==
    UNION { [input_ids : Batches(n), temperature : {0, 1},
             max_new_tokens : 1..MaxNewTokens, bias_tensor : BiasLists(n),
             seed : {0}, streamer_returns : BOOLEAN] : n \in 1..MaxBatch }

ConstructAny ==
    \E kw \in BackendKwargs, w \in WeightFiles : Construct(S_gpt2, kw, w)

ScoreAny == \E n \in 1..MaxBatch : \E ids \in [1..n -> ScoreInputs] : Score(ids)

GenerateAny == \E in \in GenerateInputs : GenerateBegin(in)

vars == <<rvars, bvars>>

Init == RInit /\ BInit

LiveHandles == { ALLM(i) : i \in DOMAIN heap }

\* string (and None, and ill-typed) arguments, every option mapping
StringArguments == {AStr(s) : s \in Identifiers} \cup {ANone, AInt}
AllKwargs == Kwargs(OptionChoices, MaxOpts)
ResolveString ==
    \E arg \in StringArguments, kwargs \in AllKwargs :
        FromDescriptor(arg, kwargs)

SetDefaultString == \E m \in DefaultStrings : SetDefaultModel(m)

Next ==
    \/ ResolveString /\ UNCHANGED bvars
    \/ Discard /\ UNCHANGED bvars
    \/ SetDefaultString /\ UNCHANGED bvars

Spec == Init /\ [][Next]_vars

\* handles among the arguments and in the default cell
HandleArguments == {AStr(s) : s \in HandleIdentifiers} \cup {ANone}
HandleKwargs == Kwargs(HandleOptionChoices, MaxHandleOpts)
ResolveAny ==
    \E arg \in HandleArguments \cup LiveHandles, kwargs \in HandleKwargs :
        FromDescriptor(arg, kwargs)

SetDefaultAny == \E m \in DefaultStrings \cup LiveHandles : SetDefaultModel(m)

NextHandle ==
    \/ ResolveAny /\ UNCHANGED bvars
    \/ Keep /\ UNCHANGED bvars
    \/ Discard /\ UNCHANGED bvars
    \/ SetDefaultAny /\ UNCHANGED bvars

SpecHandle == Init /\ [][NextHandle]_vars

\* the backend alone: the resolver is at rest
BackendInit ==
    /\ default_model = AStr(I_openai_gpt35)
    /\ heap = <<>>
    /\ held = 0
    /\ fs = {}
    /\ pc = "idle"
    /\ call = NoCall
    /\ ret = NoRet
    /\ warned = <<>>
    /\ BInit

NextBackend ==
    \/ ConstructAny /\ UNCHANGED rvars
    \/ ScoreAny /\ UNCHANGED rvars
    \/ ScoreReturn /\ UNCHANGED rvars
    \/ GenerateAny /\ UNCHANGED rvars
    \/ DecodeStep /\ UNCHANGED rvars
    \/ GenerateReturn /\ UNCHANGED rvars

SpecBackend == BackendInit /\ [][NextBackend]_vars

(***************************************************************************)
(* The properties.                                                         *)
(***************************************************************************)
\* the object a call returned
Returned == heap[ret.id]

\* the call was given None or "<dynamic>"
AskedForDefault ==
    call.arg.t = "none" \/ (call.arg.t = "str" /\ call.arg.s = S_dynamic)

\* the call was given the string s
AskedFor(s) == pc = "returned" /\ call.arg = AStr(s)

\* C1: from_descriptor applied to a handle - passed directly, or found in the
\* default cell when the identifier is None or "<dynamic>" - returns that
\* very object, whatever the options, and constructs no handle or adapter.
C1_Idempotent ==
    /\ (pc = "returned" /\ call.arg.t = "llm") =>
          /\ ret.kind = "existing" /\ ret.id = call.arg.id
          /\ ret.constructed = 0
          /\ DOMAIN heap \subseteq {held, call.arg.id, default_model.id}
    /\ (pc = "returned" /\ AskedForDefault /\ default_model.t = "llm") =>
          /\ ret.kind = "existing" /\ ret.id = default_model.id
          /\ ret.constructed = 0
          /\ DOMAIN heap \subseteq {held, default_model.id}

C1_Witness ==
    /\ pc = "returned" /\ ret.kind = "existing"
    /\ AskedForDefault /\ default_model.t = "llm"
    /\ call.kwargs # <<>>
    /\ held # 0 /\ held # default_model.id

\* the caller's options as "key=value", in insertion order, joined by ", "
RECURSIVE RenderedOptions(_)
RenderedOptions(kw) ==
    IF kw = <<>> THEN <<>>
    ELSE LET first == Head(kw).k \o <<"=">> \o PyStr(Head(kw).v)
         IN IF Len(kw) = 1 THEN first
            ELSE first \o <<",", " ">> \o RenderedOptions(Tail(kw))

\* C2: for every identifier and option mapping the handle built has as
\* configuration_string the caller's options rendered "key=value" in
\* insertion order joined by ", ", endpoint included and forced options not;
\* "local:f" without options gives "" although inprocess=True is forced.
C2_ConfigurationString ==
    /\ (pc = "returned" /\ call.arg.t \in {"str", "none"}) => ret.kind = "new"
    /\ (pc = "returned" /\ ret.kind = "new") =>
          Returned.configuration_string = RenderedOptions(call.kwargs)
    /\ (AskedFor(I_local_f) /\ call.kwargs = <<>>) =>
          /\ Returned.configuration_string = <<>>
          /\ Get(Returned.adapter.kwargs, K_inprocess, VNone) = VBool(TRUE)

C2_Witness ==
    /\ AskedFor(S_random)
    /\ Len(call.kwargs) = 2
    /\ call.kwargs[1].k = K_vocab /\ call.kwargs[2].k = K_endpoint
    /\ Returned.configuration_string
         = K_vocab \o <<"=","v",","," ">> \o K_endpoint \o <<"=","h">>
    /\ Returned.adapter.kwargs # call.kwargs

EndpointNone == << [k |-> K_endpoint, v |-> VNone] >>

\* C3, as the specification states it: "openai/gpt-3.5-turbo-instruct" with
\* endpoint=None gives the hosted-API adapter named gpt-3.5-turbo-instruct,
\* endpoint None, and the configuration_string "".
C3_AsStated ==
    (AskedFor(I_openai_gpt35) /\ call.kwargs = EndpointNone) =>
        /\ ret.kind = "new"
        /\ Returned.adapter.kind = "openai"
        /\ Returned.adapter.name = S_gpt35
        /\ Returned.adapter.endpoint = VNone
        /\ Returned.configuration_string = <<>>

\* C3, amended: the same call gives the hosted-API adapter named
\* gpt-3.5-turbo-instruct with endpoint None, and the configuration_string
\* "endpoint=None", since the option was passed.
C3_ScenarioA ==
    (AskedFor(I_openai_gpt35) /\ call.kwargs = EndpointNone) =>
        /\ ret.kind = "new"
        /\ Returned.adapter.kind = "openai"
        /\ Returned.adapter.name = S_gpt35
        /\ Returned.adapter.endpoint = VNone
        /\ Returned.adapter.kwargs = <<>>
        /\ Returned.configuration_string = K_endpoint \o <<"=","N","o","n","e">>

C3_Witness ==
    /\ AskedFor(I_openai_gpt35) /\ call.kwargs = EndpointNone
    /\ ret.kind = "new" /\ Returned.adapter.kind = "openai"

\* C4: when the identifier passed is a key of the alias table, the handle
\* returned has the string the caller passed as model_identifier.
C4_ReportsPreAliasName ==
    (pc = "returned" /\ call.arg.t = "str" /\ call.arg.s \in AliasKeys
        /\ ret.kind = "new") =>
        Returned.model_identifier = call.arg.s

\* C5: "local:<name>" with any options, inprocess=False among them, gives the
\* in-process adapter, constructed with <name> and with inprocess=True, and
\* never the network adapter.
C5_LocalForcesInprocess ==
    (pc = "returned" /\ call.arg.t = "str"
        /\ Len(call.arg.s) >= 6 /\ SubSeq(call.arg.s, 1, 6) = S_local) =>
        /\ ret.kind = "new"
        /\ Returned.adapter.kind = "inprocess"
        /\ Returned.adapter.name = SubSeq(call.arg.s, 7, Len(call.arg.s))
        /\ Get(Returned.adapter.kwargs, K_inprocess, VNone) = VBool(TRUE)
        /\ Returned.adapter.endpoint = NotPassed

C5_Witness ==
    /\ AskedFor(I_local_f)
    /\ Get(call.kwargs, K_inprocess, VNone) = VBool(FALSE)
    /\ Has(call.kwargs, K_endpoint)
    /\ Returned.adapter.kind = "inprocess"

\* the caller's options without endpoint, as passed
WithoutEndpoint(kw) == SelectSeq(kw, LAMBDA e : e.k # K_endpoint)

\* C6: an identifier with the exact prefix "openai/" gives, whatever the
\* options, only the hosted-API adapter with the name after the prefix, the
\* caller's endpoint (None if none, never "localhost:8080") and the caller's
\* other options unchanged; no option is forced and no warning emitted.  A
\* prefix in another case is not that prefix.
C6_OpenAIOnly ==
    /\ (pc = "returned" /\ call.arg.t = "str"
          /\ Len(call.arg.s) >= 7 /\ SubSeq(call.arg.s, 1, 7) = S_openai) =>
          /\ ret.kind = "new"
          /\ Returned.adapter.kind = "openai"
          /\ Returned.adapter.name = SubSeq(call.arg.s, 8, Len(call.arg.s))
          /\ Returned.adapter.endpoint = Get(call.kwargs, K_endpoint, VNone)
          /\ Returned.adapter.kwargs = WithoutEndpoint(call.kwargs)
          /\ warned = <<>>
    /\ AskedFor(I_OpenAI_upper) => Returned.adapter.kind # "openai"

C6_Witness ==
    /\ AskedFor(I_openai_random)
    /\ Get(call.kwargs, K_inprocess, VNone) = VBool(TRUE)
    /\ Has(call.kwargs, K_vocab)
    /\ Returned.adapter.kind = "openai"
    /\ Returned.adapter.name = S_random

\* the tokenizer file beside the weights of the two llama.cpp identifiers
BesideWeights(s) ==
    IF s = I_llama_m_w THEN <<"m","/">> \o S_tokenizer_model
    ELSE S_tokenizer_model

\* C9: "llama.cpp:<dir>/weights" without a tokenizer option does not fail: if
\* <dir>/tokenizer.model is missing, one warning and the tokenizer
\* "huggyllama/llama-7b"; if it exists, that path and no warning; a tokenizer
\* the caller passed is kept, with no warning, whatever the files; and an
\* endpoint the caller did not give is "localhost:8080".
C9_LlamaCppTokenizer ==
    (pc = "returned" /\ call.arg.t = "str"
        /\ call.arg.s \in {I_llama_m_w, I_llama_w}) =>
        /\ ret.kind = "new"
        /\ Has(call.kwargs, K_tokenizer) =>
              /\ Get(Returned.adapter.kwargs, K_tokenizer, VNone)
                    = Get(call.kwargs, K_tokenizer, VNone)
              /\ warned = <<>>
        /\ (~Has(call.kwargs, K_tokenizer) /\ BesideWeights(call.arg.s) \in fs) =>
              /\ Get(Returned.adapter.kwargs, K_tokenizer, VNone)
                    = VStr(BesideWeights(call.arg.s))
              /\ warned = <<>>
        /\ (~Has(call.kwargs, K_tokenizer) /\ BesideWeights(call.arg.s) \notin fs) =>
              /\ Get(Returned.adapter.kwargs, K_tokenizer, VNone)
                    = VStr(S_huggyllama)
              /\ warned = <<"UserWarning">>
        /\ (Get(call.kwargs, K_endpoint, VNone) = VNone
              /\ Returned.adapter.kind = "lmtp") =>
              Returned.adapter.endpoint = VStr(S_localhost)
        /\ call.kwargs = <<>> => Returned.adapter.kind = "lmtp"

C9_Witness ==
    /\ AskedFor(I_llama_m_w) /\ call.kwargs = <<>>
    /\ BesideWeights(I_llama_m_w) \notin fs
    /\ S_tokenizer_model \in fs
    /\ warned # <<>>
    /\ Returned.adapter.endpoint = VStr(S_localhost)

\* the decoding loop with no stopping criterion at all: it ends at
\* max_new_tokens or when every sequence has met the end-of-sequence token
RECURSIVE Unobserved(_, _, _, _, _, _)
Unobserved(weights, in, cell, seqs, unfinished, step) ==
    CHOOSE r \in
        { IF \/ \A b \in 1..Len(seqs) : ~st.unfinished[b]
             \/ step + 1 >= in.max_new_tokens
          THEN st.seqs
          ELSE Unobserved(weights, in, st.proc.bias_tensors, st.seqs,
                          st.unfinished, step + 1) :
            st \in { LoopStep(weights, in, cell,
                              IF Len(in.bias_tensor) = 0 THEN 0 ELSE 1,
                              seqs, unfinished, step) } } : TRUE

\* C7: during generate the streamer has been called exactly once per
\* decoding step, in order, with the sequences and the scores of that step;
\* the loop goes on whatever the streamer returns, so that the call ends
\* only at max_new_tokens or at end of sequence, with the sequences the same
\* call gives when nothing observes it.
C7_StreamingNeverStops ==
    gen.pc \in {"decoding", "done"} =>
        /\ Len(streamed) = gen.step
        /\ \A k \in 1..gen.step :
              /\ Len(streamed[k].scores) = k
              /\ streamed[k].scores = SubSeq(gen.scores, 1, k)
              /\ \A b \in 1..Len(gen.seqs) :
                    streamed[k].input_ids[b]
                      = SubSeq(gen.seqs[b], 1, Len(gen.in.input_ids[b]) + k)
        /\ gen.pc = "decoding" =>
              /\ gen.step < gen.in.max_new_tokens
              /\ \E b \in 1..Len(gen.seqs) : gen.unfinished[b]
        /\ gen.pc = "done" =>
              /\ gen.seqs = Unobserved(llm.model, gen.in, NoTensor,
                                       gen.in.input_ids,
                                       [b \in 1..Len(gen.in.input_ids) |-> TRUE], 0)
              /\ \/ gen.step = gen.in.max_new_tokens
                 \/ \A b \in 1..Len(gen.seqs) : ~gen.unfinished[b]

C7_Witness ==
    /\ gen.pc = "done"
    /\ gen.in.temperature = 0
    /\ gen.in.streamer_returns
    /\ gen.in.max_new_tokens = 3
    /\ gen.step = 2
    /\ Len(streamed) = 2
    /\ Len(gen.seqs) = 2

\* the dense tensor of a list of bias sets
DenseBias(bias) ==
    [b \in 1..Len(bias) |->
       [v \in Vocab |->
          LET hits == {e \in bias[b] : e[1] = v}
          IN IF hits = {} THEN 0 ELSE (CHOOSE e \in hits : TRUE)[2]]]

\* C8: in every generate call with a bias set (one mapping per batch
\* element, at least one element) the dense tensor is built exactly once, at
\* the first step, and the tensor added to the scores at every step is the
\* one built from this call's bias set, also when an earlier call on the
\* same backend built another.
C8_BiasBuiltOncePerCall ==
    (gen.pc \in {"decoding", "done"} /\ Len(gen.in.bias_tensor) >= 1) =>
        /\ gen.processors = 1
        /\ gen.builds = (IF gen.step = 0 THEN 0 ELSE 1)
        /\ Len(gen.added) = gen.step
        /\ \A k \in 1..gen.step : gen.added[k] = DenseBias(gen.in.bias_tensor)
        /\ gen.step >= 1 => bias_tensors = Tensor(DenseBias(gen.in.bias_tensor))

C8_Witness ==
    /\ gen.pc = "done"
    /\ gen.step >= 2
    /\ Len(gen.in.bias_tensor) = 2
    /\ gen.stale
    /\ gen.builds = 1

\* C10, as the specification states it: constructing the backend loads no
\* weights; they are loaded at the first score or generate call at the
\* earliest, and at most once.
C10_AsStated ==
    /\ (llm.constructed /\ ~used) => llm.loads = 0
    /\ llm.loads <= 1

\* C10, amended: the constructor itself loads the weights, once; from then
\* on the backend holds them, and no score or generate call loads again.
C10_LoadsAtConstruction ==
    /\ ~llm.constructed => (llm.loads = 0 /\ ~used)
    /\ llm.constructed => (llm.loads = 1 /\ llm.model \in WeightFiles)

C10_Witness ==
    /\ llm.constructed
    /\ used
    /\ bias_tensors.set
    /\ scored # <<>>
    /\ llm.loads = 1

=============================================================================
